---- MODULE Spec2Model ----
(***************************************************************************)
(* Model of the RARP responder in install-server/main.go.                  *)
(*                                                                         *)
(* A frame is a sequence of bytes (naturals below 256).  Go's zero-based   *)
(* slice b[lo:hi] is Slice(b, lo, hi).  16-bit quantities are naturals     *)
(* below 65536.  The codec (buildRarpReply, parseIncomingRarp) is modelled *)
(* byte by byte, the dispatcher (the for loop of main) as a state machine  *)
(* whose position is pc.                                                   *)
(***************************************************************************)
EXTENDS Integers, Sequences, FiniteSets, TLC

VARIABLES
    pc,        \* position of main: "await" (before reader.Read), "handle"
               \* (a frame was read, not yet processed), "exited" (log.Fatalf);
               \* during startup the step to run next: "iface", "ipv4",
               \* "mapping", "socket"
    started,   \* history: the startup steps run so far, in order
    startErr,  \* the error that ended startup, "none" when there is none
    fd,        \* the raw socket: "none", "open" or "closed"
    ifindex,   \* ifc.Index
    macToIP,   \* the mapping table built at startup
    serverMAC, \* ifc.HardwareAddr
    serverIP,  \* first IPv4 address of the interface
    rdbuf,     \* bytes held by the bufio.Reader and not yet returned
    frame,     \* buf[:n] of the current (or last) iteration
    nrecv,     \* number of reader.Read calls that returned a frame
    outcome,   \* how the last processed frame left the loop body
    tx,        \* every call of unix.Sendto so far, in order
    readErr,   \* TRUE once reader.Read has returned an error
    nreq,      \* history: frames read so far that are RARP requests on the
               \* wire with a mapped requester
    cstage,    \* codec harness: which codec function was applied last
    cargs,     \* codec harness: arguments of buildRarpReply
    cb,        \* codec harness: bytes given to parseIncomingRarp
    cres,      \* codec harness: result of parseIncomingRarp
    pstage,    \* mapping harness: "init" or "parsed"
    pentries,  \* mapping harness: the entries the text was written from
    ptext,     \* mapping harness: the text given to parseMapping
    pres       \* mapping harness: result of parseMapping

vars == <<pc, started, startErr, fd, ifindex,
          macToIP, serverMAC, serverIP, rdbuf, frame, nrecv, outcome, tx,
          readErr, nreq, cstage, cargs, cb, cres, pstage, pentries, ptext,
          pres>>

startVars == <<started, startErr, fd, ifindex>>

dispVars == <<pc, macToIP, serverMAC, serverIP, rdbuf, frame, nrecv, outcome,
              tx, readErr, nreq, startVars>>

codecVars == <<cstage, cargs, cb, cres>>

parseVars == <<pstage, pentries, ptext, pres>>

(***************************************************************************)
(* Program constants.                                                      *)
(***************************************************************************)
ETH_P_RARP == 32821

ETH_P_IP == 2048

ARP_REQUEST == 1

ARP_REPLY == 2

RARP_REQUEST == 3

RARP_REPLY == 4

\* 14 + 28: Ethernet header plus RARP payload
FrameLen == 42

\* make([]byte, 2048): the buffer handed to reader.Read
ReadBufLen == 2048

\* bufio.NewReader allocates its default buffer of 4096 bytes
ReaderBufLen == 4096

(***************************************************************************)
(* Byte-level helpers.                                                     *)
(***************************************************************************)
Min(a, b) == IF a < b THEN a ELSE b

\* Go slice expression b[lo:hi]
Slice(b, lo, hi) == SubSeq(b, lo + 1, hi)

\* func htons(i uint16) uint16 { return (i<<8)&0xff00 | i>>8 }
htons(i) == ((i * 256) % 65536) + (i \div 256)

\* binary.BigEndian.PutUint16(buf[o:o+2], v)
PutUint16(v) == <<v \div 256, v % 256>>

\* binary.BigEndian.Uint16(b[o:o+2])
Uint16(b) == b[1] * 256 + b[2]

macToArray(mac) == Slice(mac, 0, 6)

ipToArray(ip) == Slice(ip, 0, 4)

ZeroMAC == <<0, 0, 0, 0, 0, 0>>

ZeroIP == <<0, 0, 0, 0>>

\* var eth EthHdr
ZeroEthHdr == [Dst |-> ZeroMAC, Src |-> ZeroMAC, Type |-> 0]

\* var pkt RarpPacket
ZeroRarpPacket ==
    [HType |-> 0, PType |-> 0, HLEN |-> 0, PLEN |-> 0, Oper |-> 0,
     SHA |-> ZeroMAC, SPA |-> ZeroIP, THA |-> ZeroMAC, TPA |-> ZeroIP]

(***************************************************************************)
(* Frame codec.                                                            *)
(***************************************************************************)
buildRarpReply(sMAC, sIP, tMAC, tIP) ==
    LET eth == [Dst  |-> Slice(tMAC, 0, 6),
                Src  |-> Slice(sMAC, 0, 6),
                Type |-> htons(ETH_P_RARP)]
        pkt == [HType |-> htons(1),
                PType |-> htons(ETH_P_IP),
                HLEN  |-> 6,
                PLEN  |-> 4,
                Oper  |-> htons(RARP_REPLY),
                SHA   |-> macToArray(sMAC),
                SPA   |-> ipToArray(sIP),
                THA   |-> macToArray(tMAC),
                TPA   |-> ipToArray(tIP)]
    IN  eth.Dst \o eth.Src \o PutUint16(eth.Type)
        \o PutUint16(pkt.HType) \o PutUint16(pkt.PType)
        \o <<pkt.HLEN>> \o <<pkt.PLEN>> \o PutUint16(pkt.Oper)
        \o pkt.SHA \o pkt.SPA \o pkt.THA \o pkt.TPA

\* A variant of parseIncomingRarp that tests the ethertype before the length
\* (bytes missing from a short input read as 0).
parseIncomingRarp_typeFirst(b) ==
    LET at(i) == IF i <= Len(b) THEN b[i] ELSE 0
        ty == at(13) * 256 + at(14)
    IN  IF ty # htons(ETH_P_RARP)
        THEN [eth |-> [ZeroEthHdr EXCEPT !.Type = ty], pkt |-> ZeroRarpPacket,
              err |-> "WrongEthertype", hi |-> 14]
        ELSE IF Len(b) < 14 + 28
        THEN [eth |-> ZeroEthHdr, pkt |-> ZeroRarpPacket,
              err |-> "FrameTooShort", hi |-> 14]
        ELSE [eth |-> [Dst |-> Slice(b, 0, 6), Src |-> Slice(b, 6, 12),
                       Type |-> ty],
              pkt |-> [HType |-> Uint16(Slice(b, 14, 16)),
                       PType |-> Uint16(Slice(b, 16, 18)),
                       HLEN  |-> b[19],
                       PLEN  |-> b[20],
                       Oper  |-> Uint16(Slice(b, 20, 22)),
                       SHA   |-> Slice(b, 22, 28),
                       SPA   |-> Slice(b, 28, 32),
                       THA   |-> Slice(b, 32, 38),
                       TPA   |-> Slice(b, 38, 42)],
              err |-> "nil", hi |-> 42]

\* A variant of parseIncomingRarp that rejects a payload whose hardware type,
\* protocol type or address lengths are not those of Ethernet and IPv4.
parseIncomingRarp_checkHeader(b) ==
    IF Len(b) < 14 + 28
    THEN [eth |-> ZeroEthHdr, pkt |-> ZeroRarpPacket,
          err |-> "FrameTooShort", hi |-> 0]
    ELSE LET eth == [Dst  |-> Slice(b, 0, 6),
                     Src  |-> Slice(b, 6, 12),
                     Type |-> Uint16(Slice(b, 12, 14))]
         IN  IF eth.Type # htons(ETH_P_RARP)
             THEN [eth |-> eth, pkt |-> ZeroRarpPacket,
                   err |-> "WrongEthertype", hi |-> 14]
             ELSE IF Slice(b, 14, 20) # <<1, 0, 0, 8, 6, 4>>
             THEN [eth |-> eth, pkt |-> ZeroRarpPacket,
                   err |-> "BadHeader", hi |-> 20]
             ELSE [eth |-> eth,
                   pkt |-> [HType |-> Uint16(Slice(b, 14, 16)),
                            PType |-> Uint16(Slice(b, 16, 18)),
                            HLEN  |-> b[19],
                            PLEN  |-> b[20],
                            Oper  |-> Uint16(Slice(b, 20, 22)),
                            SHA   |-> Slice(b, 22, 28),
                            SPA   |-> Slice(b, 28, 32),
                            THA   |-> Slice(b, 32, 38),
                            TPA   |-> Slice(b, 38, 42)],
                   err |-> "nil", hi |-> 42]

\* The result is the triple (eth, pkt, err) of the Go function; hi is the
\* largest slice bound the call evaluates on b (0 when b is not indexed).
parseIncomingRarp(b) ==
    IF Len(b) < 14 + 28
    THEN [eth |-> ZeroEthHdr, pkt |-> ZeroRarpPacket,
          err |-> "FrameTooShort", hi |-> 0]
    ELSE LET eth == [Dst  |-> Slice(b, 0, 6),
                     Src  |-> Slice(b, 6, 12),
                     Type |-> Uint16(Slice(b, 12, 14))]
         IN  IF eth.Type # htons(ETH_P_RARP)
             THEN [eth |-> eth, pkt |-> ZeroRarpPacket,
                   err |-> "WrongEthertype", hi |-> 14]
             ELSE [eth |-> eth,
                   pkt |-> [HType |-> Uint16(Slice(b, 14, 16)),
                            PType |-> Uint16(Slice(b, 16, 18)),
                            HLEN  |-> b[19],
                            PLEN  |-> b[20],
                            Oper  |-> Uint16(Slice(b, 20, 22)),
                            SHA   |-> Slice(b, 22, 28),
                            SPA   |-> Slice(b, 28, 32),
                            THA   |-> Slice(b, 32, 38),
                            TPA   |-> Slice(b, 38, 42)],
                   err |-> "nil", hi |-> 42]

(***************************************************************************)
(* Mapping table.  A text is a sequence of tokens: the characters ",", "="  *)
(* and " ", and words (maximal runs of other characters), each word one    *)
(* token.  net.ParseMAC and net.ParseIP are given by what they return for  *)
(* the words below.                                                        *)
(***************************************************************************)
EUI64_A == <<170, 187, 204, 221, 238, 255, 0, 1>>

EUI64_B == <<170, 187, 204, 221, 238, 255, 0, 2>>

IPoIB_A == <<170, 187, 204, 221, 238, 255, 0, 0, 0, 0, 0, 0, 2, 0, 94, 16, 0, 0,
             0, 1>>

\* net.ParseMAC: 6-, 8- and 20-byte addresses written with ':' or '-' (or as
\* dotted groups of four digits), in either letter case
MacWords ==
    "aa:bb:cc:dd:ee:ff" :> <<170, 187, 204, 221, 238, 255>>
    @@ "AA-BB-CC-DD-EE-FF" :> <<170, 187, 204, 221, 238, 255>>
    @@ "52:54:00:12:34:56" :> <<82, 84, 0, 18, 52, 86>>
    @@ "0200.0000.0001" :> <<2, 0, 0, 0, 0, 1>>
    @@ "aa:bb:cc:dd:ee:ff:00:01" :> EUI64_A
    @@ "aa:bb:cc:dd:ee:ff:00:02" :> EUI64_B
    @@ "aa:bb:cc:dd:ee:ff:00:00:00:00:00:00:02:00:5e:10:00:00:00:01" :> IPoIB_A

\* net.ParseIP(w).To4(): dotted quads, and IPv6 texts of IPv4-mapped addresses
IPv4Words ==
    "192.168.1.10" :> <<192, 168, 1, 10>>
    @@ "192.168.1.11" :> <<192, 168, 1, 11>>
    @@ "10.0.0.5" :> <<10, 0, 0, 5>>
    @@ "10.0.0.6" :> <<10, 0, 0, 6>>
    @@ "::ffff:10.0.0.5" :> <<10, 0, 0, 5>>

\* net.ParseMAC(macStr)
ParseMAC(w) ==
    IF Len(w) = 1 /\ w[1] \in DOMAIN MacWords
    THEN [mac |-> MacWords[w[1]], err |-> FALSE]
    ELSE [mac |-> <<>>, err |-> TRUE]

\* net.ParseIP(ipStr).To4(); nil is <<>>
ParseIPTo4(w) ==
    IF Len(w) = 1 /\ w[1] \in DOMAIN IPv4Words THEN IPv4Words[w[1]] ELSE <<>>

\* index of the first token c of s, 0 when there is none
Index(s, c) ==
    IF \E i \in DOMAIN s : s[i] = c
    THEN CHOOSE i \in DOMAIN s : s[i] = c /\ \A j \in 1..(i - 1) : s[j] # c
    ELSE 0

RECURSIVE Split(_, _)
\* strings.Split(s, sep)
Split(s, sep) ==
    IF Index(s, sep) = 0 THEN <<s>>
    ELSE <<SubSeq(s, 1, Index(s, sep) - 1)>>
         \o Split(SubSeq(s, Index(s, sep) + 1, Len(s)), sep)

\* strings.SplitN(s, sep, 2)
SplitN2(s, sep) ==
    IF Index(s, sep) = 0 THEN <<s>>
    ELSE <<SubSeq(s, 1, Index(s, sep) - 1),
           SubSeq(s, Index(s, sep) + 1, Len(s))>>

RECURSIVE TrimLeft(_)
TrimLeft(s) == IF s # <<>> /\ s[1] = " " THEN TrimLeft(Tail(s)) ELSE s

RECURSIVE TrimRight(_)
TrimRight(s) ==
    IF s # <<>> /\ s[Len(s)] = " " THEN TrimRight(SubSeq(s, 1, Len(s) - 1))
    ELSE s

\* strings.TrimSpace(s)
TrimSpace(s) == TrimRight(TrimLeft(s))

\* make(map[[6]byte][4]byte); also the nil map returned with an error
EmptyTable == [m \in {} |-> ZeroIP]

\* m[mac6] = ip4
MapSet(m, k, v) == [x \in DOMAIN m \cup {k} |-> IF x = k THEN v ELSE m[x]]

RECURSIVE parsePairs_keepFirst(_, _, _)
\* A variant of the loop of parseMapping that keeps the first address given
\* for a MAC.
parsePairs_keepFirst(pairs, i, m) ==
    IF i > Len(pairs) THEN [m |-> m, err |-> "nil"]
    ELSE LET p == TrimSpace(pairs[i])
             kv == SplitN2(p, "=")
             mac == ParseMAC(TrimSpace(kv[1]))
             ip == ParseIPTo4(TrimSpace(kv[2]))
         IN  IF p = <<>> THEN parsePairs_keepFirst(pairs, i + 1, m)
             ELSE IF Len(kv) # 2
             THEN [m |-> EmptyTable, err |-> "InvalidMappingEntry"]
             ELSE IF mac.err
             THEN [m |-> EmptyTable, err |-> "InvalidMacAddress"]
             ELSE IF ip = <<>>
             THEN [m |-> EmptyTable, err |-> "InvalidIPv4Address"]
             ELSE IF Slice(mac.mac, 0, 6) \in DOMAIN m
             THEN parsePairs_keepFirst(pairs, i + 1, m)
             ELSE parsePairs_keepFirst(pairs, i + 1,
                      MapSet(m, Slice(mac.mac, 0, 6), Slice(ip, 0, 4)))

RECURSIVE parsePairs_noSkip(_, _, _)
\* A variant of the loop of parseMapping without "if p == "" { continue }".
parsePairs_noSkip(pairs, i, m) ==
    IF i > Len(pairs) THEN [m |-> m, err |-> "nil"]
    ELSE LET p == TrimSpace(pairs[i])
             kv == SplitN2(p, "=")
             mac == ParseMAC(TrimSpace(kv[1]))
             ip == ParseIPTo4(TrimSpace(kv[2]))
         IN  IF Len(kv) # 2
             THEN [m |-> EmptyTable, err |-> "InvalidMappingEntry"]
             ELSE IF mac.err
             THEN [m |-> EmptyTable, err |-> "InvalidMacAddress"]
             ELSE IF ip = <<>>
             THEN [m |-> EmptyTable, err |-> "InvalidIPv4Address"]
             ELSE parsePairs_noSkip(pairs, i + 1,
                      MapSet(m, Slice(mac.mac, 0, 6), Slice(ip, 0, 4)))

RECURSIVE parsePairs(_, _, _)
\* for _, p := range pairs { ... }, from the i-th pair on, with the table m
\* built so far
parsePairs(pairs, i, m) ==
    IF i > Len(pairs) THEN [m |-> m, err |-> "nil"]
    ELSE LET p == TrimSpace(pairs[i])
             kv == SplitN2(p, "=")
             mac == ParseMAC(TrimSpace(kv[1]))
             ip == ParseIPTo4(TrimSpace(kv[2]))
         IN  IF p = <<>> THEN parsePairs(pairs, i + 1, m)
             ELSE IF Len(kv) # 2
             THEN [m |-> EmptyTable, err |-> "InvalidMappingEntry"]
             ELSE IF mac.err
             THEN [m |-> EmptyTable, err |-> "InvalidMacAddress"]
             ELSE IF ip = <<>>
             THEN [m |-> EmptyTable, err |-> "InvalidIPv4Address"]
             ELSE parsePairs(pairs, i + 1,
                      MapSet(m, Slice(mac.mac, 0, 6), Slice(ip, 0, 4)))

parseMapping(s) ==
    IF s = <<>> THEN [m |-> EmptyTable, err |-> "nil"]
    ELSE parsePairs(Split(s, ","), 1, EmptyTable)

(***************************************************************************)
(* Inputs: hardware addresses, IPv4 addresses, mapping tables and frames.  *)
(***************************************************************************)
\* number of reader.Read calls a run of the dispatcher may make
MaxFrames == 3

MAC_A == <<170, 187, 204, 221, 238, 255>>

MAC_B == <<82, 84, 0, 18, 52, 86>>

MAC_C == <<2, 0, 0, 0, 0, 1>>

MAC_S == <<0, 3, 186, 16, 32, 48>>

MAC_T == <<0, 3, 186, 64, 80, 96>>

Broadcast == <<255, 255, 255, 255, 255, 255>>

IP_A == <<192, 168, 1, 10>>

IP_B == <<192, 168, 1, 11>>

IP_S == <<192, 168, 1, 1>>

IP_T == <<10, 0, 0, 1>>

\* the tables parseMapping can return for "", "A=IP_A" and "A=IP_A,B=IP_B"
Tables ==
    { [m \in {} |-> ZeroIP],
      [m \in {MAC_A} |-> IP_A],
      [m \in {MAC_A, MAC_B} |-> IF m = MAC_A THEN IP_A ELSE IP_B] }

Identities == { <<MAC_S, IP_S>>, <<MAC_T, IP_T>> }

\* byte pairs found at offset 12: 0x8035, 0x3580, 0x0800
EtherTypeBytes == { <<128, 53>>, <<53, 128>>, <<8, 0>> }

\* byte pairs found at offset 20: 3, 0x0300, 4, 0x0400, 1
OpcodeBytes == { <<0, 3>>, <<3, 0>>, <<0, 4>>, <<4, 0>>, <<0, 1>> }

\* hrd = 1, pro = 0x0800, hln = 6, pln = 4 in network byte order
StdHeader == <<0, 1, 8, 0, 6, 4>>

Frame(dst, src, ty, hdr, op, sha, spa, tha, tpa) ==
    dst \o src \o ty \o hdr \o op \o sha \o spa \o tha \o tpa

Zeros(n) == [i \in 1..n |-> 0]

Trailer == <<222, 173, 190, 239>>

\* 42-byte frames
FullFrames ==
    { Frame(Broadcast, src, ty, StdHeader, op, src, ZeroIP, tha, ZeroIP) :
        src \in {MAC_A, MAC_C}, ty \in EtherTypeBytes, op \in OpcodeBytes,
        tha \in {MAC_A, MAC_B, MAC_C} }

BaseFrames ==
    { Frame(Broadcast, MAC_A, ty, StdHeader, op, MAC_A, ZeroIP, MAC_A, ZeroIP) :
        ty \in EtherTypeBytes, op \in {<<0, 3>>, <<3, 0>>} }

\* frames cut short of 42 bytes
ShortFrames == { Slice(f, 0, n) : f \in BaseFrames, n \in {1, 13, 14, 41} }

\* frames followed by a trailer
PaddedFrames == { f \o Trailer : f \in BaseFrames }

\* frames longer than the 2048-byte read buffer, and one longer than the
\* reader's own 4096-byte buffer
LongFrames ==
    { Frame(Broadcast, MAC_A, <<128, 53>>, StdHeader, <<0, 3>>, MAC_A, ZeroIP,
            MAC_C, ZeroIP) \o Zeros(ReadBufLen - FrameLen) \o t :
        t \in { Frame(Broadcast, MAC_A, <<53, 128>>, StdHeader, <<3, 0>>, MAC_A,
                      ZeroIP, MAC_A, ZeroIP),
                Slice(Trailer, 0, 2) } }
    \cup { Zeros(ReaderBufLen + 1) }

\* frames the loop takes for requests, with other values in the fields and
\* bytes the loop does not look at
VariedFrames ==
    { Frame(MAC_S, MAC_C, <<53, 128>>, <<1, 0, 0, 8, 6, 4>>, <<3, 0>>, MAC_B,
            IP_B, MAC_A, IP_T),
      Frame(Broadcast, MAC_A, <<53, 128>>, <<0, 6, 134, 221, 8, 16>>, <<3, 0>>,
            MAC_A, ZeroIP, MAC_A, ZeroIP),
      Frame(MAC_T, MAC_B, <<53, 128>>, <<0, 1, 8, 0, 6, 4>>, <<3, 0>>, MAC_C,
            IP_S, MAC_B, IP_A) \o Trailer }

\* what the socket may deliver to one read
SocketFrames ==
    FullFrames \cup ShortFrames \cup PaddedFrames \cup LongFrames
    \cup VariedFrames

\* byte sequences given to parseIncomingRarp on its own
CodecInputs == SocketFrames \cup { <<>> }

\* arguments given to buildRarpReply on its own
CodecArgs ==
    { <<s, sip, t, tip>> : s \in {MAC_S, MAC_T}, sip \in {IP_S, IP_T},
                           t \in {MAC_A, MAC_B, MAC_C}, tip \in {IP_A, IP_B, ZeroIP} }

(***************************************************************************)
(* What the wire format calls a RARP request (RFC 903): at least 42 bytes, *)
(* ethertype 0x8035 and opcode 3, both in network byte order.              *)
(***************************************************************************)
Ethertype(b) == Uint16(Slice(b, 12, 14))

Opcode(b) == Uint16(Slice(b, 20, 22))

Requester(b) == Slice(b, 32, 38)

IsWireRequest(b) ==
    /\ Len(b) >= FrameLen
    /\ Ethertype(b) = ETH_P_RARP
    /\ Opcode(b) = RARP_REQUEST

IsMappedWireRequest(b) == IsWireRequest(b) /\ Requester(b) \in DOMAIN macToIP

(***************************************************************************)
(* The dispatcher: the for loop of main.                                   *)
(***************************************************************************)
\* bufio.Reader.Read(p) with len(p) = 2048 < 4096: when nothing is buffered
\* the reader fills its own buffer with one read of the descriptor (a packet
\* socket returns one frame, cut to the buffer's size), then copies at most
\* len(p) bytes to p and keeps the rest.
ReaderRead(buffered, f) ==
    LET avail == IF buffered = <<>>
                 THEN Slice(f, 0, Min(Len(f), ReaderBufLen))
                 ELSE buffered
        n == Min(Len(avail), ReadBufLen)
    IN  [data |-> Slice(avail, 0, n), rest |-> Slice(avail, n, Len(avail))]

Deliver(r) ==
    /\ frame' = r.data
    /\ rdbuf' = r.rest
    /\ nrecv' = nrecv + 1
    /\ nreq' = IF IsMappedWireRequest(r.data) THEN nreq + 1 ELSE nreq
    /\ pc' = "handle"
    /\ UNCHANGED <<macToIP, serverMAC, serverIP, outcome, tx, readErr>>
    /\ UNCHANGED <<startVars, codecVars, parseVars>>

\* A variant of ReadSocket in which a second reader runs while a frame is
\* being processed.
ReadSocket_overlap(f) ==
    /\ pc \in {"await", "handle"}
    /\ nrecv < MaxFrames
    /\ rdbuf = <<>>
    /\ Deliver(ReaderRead(rdbuf, f))

\* reader.Read returns a frame read from the socket
ReadSocket(f) ==
    /\ pc = "await"
    /\ nrecv < MaxFrames
    /\ rdbuf = <<>>
    /\ Deliver(ReaderRead(rdbuf, f))

\* reader.Read returns bytes it had kept from an earlier read
ReadBuffered ==
    /\ pc = "await"
    /\ nrecv < MaxFrames
    /\ rdbuf # <<>>
    /\ Deliver(ReaderRead(rdbuf, <<>>))

\* A variant of ReadFail that logs the error and stays in the loop.
ReadFail_continue ==
    /\ pc = "await"
    /\ rdbuf = <<>>
    /\ readErr' = TRUE
    /\ pc' = "await"
    /\ UNCHANGED <<macToIP, serverMAC, serverIP, rdbuf, frame, nrecv, outcome,
                   tx, nreq>>
    /\ UNCHANGED <<startVars, codecVars, parseVars>>

\* reader.Read returns an error: log.Fatalf
ReadFail ==
    /\ pc = "await"
    /\ rdbuf = <<>>
    /\ readErr' = TRUE
    /\ pc' = "exited"
    /\ UNCHANGED <<macToIP, serverMAC, serverIP, rdbuf, frame, nrecv, outcome,
                   tx, nreq>>
    /\ UNCHANGED <<startVars, codecVars, parseVars>>

\* the loop body after the read ends with continue or falls off its end
Continue(out) ==
    /\ outcome' = out
    /\ pc' = "await"
    /\ UNCHANGED <<macToIP, serverMAC, serverIP, rdbuf, frame, nrecv, readErr,
                   nreq>>
    /\ UNCHANGED <<startVars, codecVars, parseVars>>

\* parseIncomingRarp failed: skip the frame
SkipFrame ==
    /\ pc = "handle"
    /\ parseIncomingRarp(frame).err # "nil"
    /\ tx' = tx
    /\ Continue(parseIncomingRarp(frame).err)

\* if pkt.Oper != htons(RARP_REQUEST)
IgnoreOpcode ==
    /\ pc = "handle"
    /\ parseIncomingRarp(frame).err = "nil"
    /\ parseIncomingRarp(frame).pkt.Oper # htons(RARP_REQUEST)
    /\ tx' = tx
    /\ Continue("opcode")

\* A variant of NoMapping that remembers the unknown requester, giving it
\* the address in the request's target protocol address field.
NoMapping_learn ==
    /\ pc = "handle"
    /\ parseIncomingRarp(frame).err = "nil"
    /\ parseIncomingRarp(frame).pkt.Oper = htons(RARP_REQUEST)
    /\ parseIncomingRarp(frame).pkt.THA \notin DOMAIN macToIP
    /\ tx' = tx
    /\ macToIP' = MapSet(macToIP, parseIncomingRarp(frame).pkt.THA,
                         parseIncomingRarp(frame).pkt.TPA)
    /\ outcome' = "unmapped"
    /\ pc' = "await"
    /\ UNCHANGED <<serverMAC, serverIP, rdbuf, frame, nrecv, readErr, nreq>>
    /\ UNCHANGED <<startVars, codecVars, parseVars>>

\* ip4, ok := macToIP[targetMAC]; !ok
NoMapping ==
    /\ pc = "handle"
    /\ parseIncomingRarp(frame).err = "nil"
    /\ parseIncomingRarp(frame).pkt.Oper = htons(RARP_REQUEST)
    /\ parseIncomingRarp(frame).pkt.THA \notin DOMAIN macToIP
    /\ tx' = tx
    /\ Continue("unmapped")

\* A variant of Transmit that takes the requester from the Ethernet source
\* address of the request.
Transmit_toSource(ok, out) ==
    LET targetMAC == parseIncomingRarp(frame).eth.Src
        reply == buildRarpReply(serverMAC, serverIP, targetMAC,
                                macToIP[targetMAC])
    IN  /\ pc = "handle"
        /\ parseIncomingRarp(frame).err = "nil"
        /\ parseIncomingRarp(frame).pkt.Oper = htons(RARP_REQUEST)
        /\ targetMAC \in DOMAIN macToIP
        /\ tx' = Append(tx, [frame |-> reply, ifindex |-> ifindex,
                             n |-> nrecv, ok |-> ok])
        /\ Continue(out)

\* the reply is built and handed to unix.Sendto, which succeeds or fails
Transmit(ok, out) ==
    LET targetMAC == parseIncomingRarp(frame).pkt.THA
        reply == buildRarpReply(serverMAC, serverIP, targetMAC,
                                macToIP[targetMAC])
    IN  /\ pc = "handle"
        /\ parseIncomingRarp(frame).err = "nil"
        /\ parseIncomingRarp(frame).pkt.Oper = htons(RARP_REQUEST)
        /\ targetMAC \in DOMAIN macToIP
        /\ tx' = Append(tx, [frame |-> reply, ifindex |-> ifindex,
                             n |-> nrecv, ok |-> ok])
        /\ Continue(out)

SendReply == Transmit(TRUE, "answered")

\* A variant of SendFail that treats the failure as fatal.
SendFail_fatal ==
    /\ pc = "handle"
    /\ parseIncomingRarp(frame).err = "nil"
    /\ parseIncomingRarp(frame).pkt.Oper = htons(RARP_REQUEST)
    /\ parseIncomingRarp(frame).pkt.THA \in DOMAIN macToIP
    /\ tx' = Append(tx, [frame |-> buildRarpReply(serverMAC, serverIP,
                                       parseIncomingRarp(frame).pkt.THA,
                                       macToIP[parseIncomingRarp(frame).pkt.THA]),
                         ifindex |-> ifindex, n |-> nrecv, ok |-> FALSE])
    /\ outcome' = "sendfail"
    /\ pc' = "exited"
    /\ UNCHANGED <<macToIP, serverMAC, serverIP, rdbuf, frame, nrecv, readErr,
                   nreq>>
    /\ UNCHANGED <<startVars, codecVars, parseVars>>

SendFail == Transmit(FALSE, "sendfail")

(***************************************************************************)
(* Startup.  A host is what the operating system reports for the interface *)
(* name at the time of one lookup.                                         *)
(***************************************************************************)
Host(found, up, mac, index, addrs, addrsErr) ==
    [found |-> found, up |-> up, mac |-> mac, index |-> index,
     addrs |-> addrs, addrsErr |-> addrsErr]

IPNet(ip) == [kind |-> "IPNet", ip |-> ip]

IP6_LinkLocal == <<254, 128, 0, 0, 0, 0, 0, 0, 0, 0, 0, 0, 0, 0, 0, 1>>

\* 192.168.1.1 in its 16-byte form
IP6_MappedS == <<0, 0, 0, 0, 0, 0, 0, 0, 0, 0, 255, 255, 192, 168, 1, 1>>

Hosts ==
    { Host(FALSE, FALSE, <<>>, 0, <<>>, FALSE),
      Host(TRUE, FALSE, MAC_S, 2, <<IPNet(IP_S)>>, FALSE),
      Host(TRUE, TRUE, <<>>, 1, <<IPNet(<<127, 0, 0, 1>>)>>, FALSE),
      Host(TRUE, TRUE, EUI64_A, 4, <<IPNet(IP_S)>>, FALSE),
      Host(TRUE, TRUE, MAC_S, 2, <<IPNet(IP6_LinkLocal), IPNet(IP6_MappedS),
                                   IPNet(IP_T)>>, FALSE),
      Host(TRUE, TRUE, MAC_T, 3, <<[kind |-> "IPAddr", ip |-> IP_S],
                                   IPNet(IP_T), IPNet(IP_S)>>, FALSE),
      Host(TRUE, TRUE, MAC_S, 2, <<IPNet(IP6_LinkLocal)>>, FALSE),
      Host(TRUE, TRUE, MAC_S, 2, <<>>, TRUE) }

\* net.IP.To4(); nil is <<>>
To4(ip) ==
    IF Len(ip) = 4 THEN ip
    ELSE IF /\ Len(ip) = 16
            /\ \A i \in 1..10 : ip[i] = 0
            /\ ip[11] = 255
            /\ ip[12] = 255
    THEN SubSeq(ip, 13, 16)
    ELSE <<>>

ifaceByName(h) ==
    IF ~h.found THEN [ifc |-> h, err |-> "InterfaceNotFound"]
    ELSE IF ~h.up THEN [ifc |-> h, err |-> "InterfaceDown"]
    ELSE IF h.mac = <<>> \/ Len(h.mac) # 6
    THEN [ifc |-> h, err |-> "MissingHardwareAddress"]
    ELSE [ifc |-> h, err |-> "nil"]

RECURSIVE firstIPNetTo4(_, _)
\* for _, a := range addrs { ... }, from the i-th address on
firstIPNetTo4(addrs, i) ==
    IF i > Len(addrs) THEN <<>>
    ELSE IF addrs[i].kind = "IPNet" /\ To4(addrs[i].ip) # <<>>
    THEN To4(addrs[i].ip)
    ELSE firstIPNetTo4(addrs, i + 1)

firstIPv4Addr(h) ==
    IF ~h.found THEN [ip |-> <<>>, err |-> "InterfaceNotFound"]
    ELSE IF h.addrsErr THEN [ip |-> <<>>, err |-> "AddrsError"]
    ELSE IF firstIPNetTo4(h.addrs, 1) = <<>>
    THEN [ip |-> <<>>, err |-> "NoIPv4Address"]
    ELSE [ip |-> firstIPNetTo4(h.addrs, 1), err |-> "nil"]

\* the texts given with -map
MainTexts ==
    { <<>>,
      <<"aa:bb:cc:dd:ee:ff", "=", "192.168.1.10">>,
      <<"aa:bb:cc:dd:ee:ff", "=", "192.168.1.10", ",", " ",
        "52:54:00:12:34:56", "=", "192.168.1.11">>,
      <<"garbage">> }

\* what unix.Socket and unix.Bind do in openRawSocket
SocketOutcomes == { "SocketOpenError", "BindError", "nil" }

StartupOrder == <<"ifaceByName", "firstIPv4Addr", "parseMapping", "openRawSocket">>

\* if err != nil { log.Fatalf("%v", err) }
Fatal(step, err) ==
    /\ started' = Append(started, step)
    /\ startErr' = err
    /\ pc' = "exited"

Proceed(step, next) ==
    /\ started' = Append(started, step)
    /\ startErr' = startErr
    /\ pc' = next

\* ifc, err := ifaceByName(*iface)
StartIface ==
    /\ pc = "iface"
    /\ \E h \in Hosts :
          LET r == ifaceByName(h)
          IN  IF r.err # "nil"
              THEN /\ Fatal("ifaceByName", r.err)
                   /\ UNCHANGED <<serverMAC, ifindex>>
              ELSE /\ Proceed("ifaceByName", "ipv4")
                   /\ serverMAC' = r.ifc.mac
                   /\ ifindex' = r.ifc.index
    /\ UNCHANGED <<fd, macToIP, serverIP, rdbuf, frame, nrecv, outcome, tx,
                   readErr, nreq>>
    /\ UNCHANGED <<codecVars, parseVars>>

\* serverIP, err := firstIPv4Addr(*iface)
StartIPv4 ==
    /\ pc = "ipv4"
    /\ \E h \in Hosts :
          LET r == firstIPv4Addr(h)
          IN  IF r.err # "nil"
              THEN /\ Fatal("firstIPv4Addr", r.err)
                   /\ UNCHANGED serverIP
              ELSE /\ Proceed("firstIPv4Addr", "mapping")
                   /\ serverIP' = r.ip
    /\ UNCHANGED <<fd, ifindex, macToIP, serverMAC, rdbuf, frame, nrecv,
                   outcome, tx, readErr, nreq>>
    /\ UNCHANGED <<codecVars, parseVars>>

\* A variant of StartMapping that logs a parse error and goes on with the
\* empty table.
StartMapping_goOn ==
    /\ pc = "mapping"
    /\ \E s \in MainTexts :
          LET r == parseMapping(s)
          IN  /\ started' = Append(started, "parseMapping")
              /\ startErr' = IF r.err # "nil" THEN r.err ELSE startErr
              /\ pc' = "socket"
              /\ macToIP' = r.m
    /\ UNCHANGED <<fd, ifindex, serverMAC, serverIP, rdbuf, frame, nrecv,
                   outcome, tx, readErr, nreq>>
    /\ UNCHANGED <<codecVars, parseVars>>

\* macToIP, err := parseMapping(*mapping)
StartMapping ==
    /\ pc = "mapping"
    /\ \E s \in MainTexts :
          LET r == parseMapping(s)
          IN  IF r.err # "nil"
              THEN /\ Fatal("parseMapping", r.err)
                   /\ UNCHANGED macToIP
              ELSE /\ Proceed("parseMapping", "socket")
                   /\ macToIP' = r.m
    /\ UNCHANGED <<fd, ifindex, serverMAC, serverIP, rdbuf, frame, nrecv,
                   outcome, tx, readErr, nreq>>
    /\ UNCHANGED <<codecVars, parseVars>>

\* fd, err := openRawSocket(ifc): unix.Socket fails, or unix.Bind fails and
\* the descriptor is closed, or the bound descriptor is returned
StartSocket ==
    /\ pc = "socket"
    /\ \E o \in SocketOutcomes :
          IF o = "SocketOpenError"
          THEN Fatal("openRawSocket", o) /\ fd' = fd
          ELSE IF o = "BindError"
          THEN Fatal("openRawSocket", o) /\ fd' = "closed"
          ELSE Proceed("openRawSocket", "await") /\ fd' = "open"
    /\ UNCHANGED <<ifindex, macToIP, serverMAC, serverIP, rdbuf, frame, nrecv,
                   outcome, tx, readErr, nreq>>
    /\ UNCHANGED <<codecVars, parseVars>>

NoTable == [m |-> EmptyTable, err |-> "none"]

ParseIdle ==
    /\ pstage = "idle"
    /\ pentries = <<>>
    /\ ptext = <<>>
    /\ pres = NoTable

NoResult == [eth |-> ZeroEthHdr, pkt |-> ZeroRarpPacket, err |-> "none", hi |-> 0]

CodecIdle ==
    /\ cstage = "idle"
    /\ cargs = <<ZeroMAC, ZeroIP, ZeroMAC, ZeroIP>>
    /\ cb = <<>>
    /\ cres = NoResult

\* the loop is entered with the table and the identity startup produced
Init ==
    /\ pc = "await"
    /\ started = StartupOrder
    /\ startErr = "none"
    /\ fd = "open"
    /\ macToIP \in Tables
    /\ \E id \in Identities : serverMAC = id[1] /\ serverIP = id[2]
    /\ ifindex \in { h.index : h \in { x \in Hosts : x.mac = serverMAC } }
    /\ rdbuf = <<>>
    /\ frame = <<>>
    /\ nrecv = 0
    /\ nreq = 0
    /\ outcome = "none"
    /\ tx = <<>>
    /\ readErr = FALSE
    /\ CodecIdle
    /\ ParseIdle

Next ==
    \/ \E f \in SocketFrames : ReadSocket(f)
    \/ ReadBuffered
    \/ ReadFail
    \/ SkipFrame
    \/ IgnoreOpcode
    \/ NoMapping
    \/ SendReply
    \/ SendFail

Spec == Init /\ [][Next]_vars

(***************************************************************************)
(* The whole of main: startup, then the loop.                              *)
(***************************************************************************)
MainInit ==
    /\ pc = "iface"
    /\ started = <<>>
    /\ startErr = "none"
    /\ fd = "none"
    /\ ifindex = 0
    /\ macToIP = EmptyTable
    /\ serverMAC = <<>>
    /\ serverIP = <<>>
    /\ rdbuf = <<>>
    /\ frame = <<>>
    /\ nrecv = 0
    /\ nreq = 0
    /\ outcome = "none"
    /\ tx = <<>>
    /\ readErr = FALSE
    /\ CodecIdle
    /\ ParseIdle

MainNext ==
    \/ StartIface
    \/ StartIPv4
    \/ StartMapping
    \/ StartSocket
    \/ Next

MainSpec == MainInit /\ [][MainNext]_vars

(***************************************************************************)
(* The codec on its own: buildRarpReply and parseIncomingRarp applied to   *)
(* arguments drawn from CodecArgs and CodecInputs.                         *)
(***************************************************************************)
DispatcherIdle ==
    /\ pc = "idle"
    /\ started = <<>>
    /\ startErr = "none"
    /\ fd = "none"
    /\ ifindex = 0
    /\ macToIP = [m \in {} |-> ZeroIP]
    /\ serverMAC = ZeroMAC
    /\ serverIP = ZeroIP
    /\ rdbuf = <<>>
    /\ frame = <<>>
    /\ nrecv = 0
    /\ nreq = 0
    /\ outcome = "none"
    /\ tx = <<>>
    /\ readErr = FALSE

CodecInit ==
    /\ DispatcherIdle
    /\ cstage = "init"
    /\ cargs \in CodecArgs
    /\ cb \in CodecInputs
    /\ cres = NoResult
    /\ ParseIdle

\* parseIncomingRarp(cb)
CodecDecode ==
    /\ cstage = "init"
    /\ cres' = parseIncomingRarp(cb)
    /\ cstage' = "decoded"
    /\ UNCHANGED <<cargs, cb>>
    /\ UNCHANGED <<dispVars, parseVars>>

\* buildRarpReply(cargs)
CodecEncode ==
    /\ cstage = "init"
    /\ cb' = buildRarpReply(cargs[1], cargs[2], cargs[3], cargs[4])
    /\ cstage' = "encoded"
    /\ UNCHANGED <<cargs, cres>>
    /\ UNCHANGED <<dispVars, parseVars>>

\* parseIncomingRarp(buildRarpReply(cargs))
CodecRoundTrip ==
    /\ cstage = "encoded"
    /\ cres' = parseIncomingRarp(cb)
    /\ cstage' = "roundtrip"
    /\ UNCHANGED <<cargs, cb>>
    /\ UNCHANGED <<dispVars, parseVars>>

CodecNext == CodecDecode \/ CodecEncode \/ CodecRoundTrip

CodecSpec == CodecInit /\ [][CodecNext]_vars

(***************************************************************************)
(* parseMapping on its own, applied to texts written from lists of         *)
(* entries.  An entry records its text, what kind of entry it is, and for  *)
(* a mac=ipv4 entry the addresses its two words denote.                    *)
(***************************************************************************)
\* number of comma-separated entries of a text
MaxEntries == 2

Entry(text, kind, mac, ip) ==
    [text |-> text, kind |-> kind, mac |-> mac, ip |-> ip]

\* "<mac>=<ipv4>" with a 6-byte MAC
ValidEntries ==
    { Entry(<<mw, "=", iw>>, "valid", MacWords[mw], IPv4Words[iw]) :
        mw \in {"aa:bb:cc:dd:ee:ff", "AA-BB-CC-DD-EE-FF", "52:54:00:12:34:56"},
        iw \in {"10.0.0.5", "10.0.0.6"} }
    \cup { Entry(<<" ", "0200.0000.0001", " ", "=", " ", "192.168.1.10", " ">>,
                 "valid", MacWords["0200.0000.0001"],
                 IPv4Words["192.168.1.10"]) }

\* entries that do not split into two parts on "="
MalformedEntries ==
    { Entry(<<"garbage">>, "noeq", <<>>, <<>>),
      Entry(<<"aa:bb:cc:dd:ee:ff">>, "noeq", <<>>, <<>>),
      Entry(<<"aa:bb:cc:dd:ee:ff", "=", "10.0.0.5", "=", "x">>, "multieq",
            <<>>, <<>>),
      Entry(<<"mac", "=", "ip", "=", "x">>, "multieq", <<>>, <<>>),
      Entry(<<>>, "empty", <<>>, <<>>),
      Entry(<<" ">>, "empty", <<>>, <<>>) }

\* entries whose MAC part is not a 6-byte address, or whose IP part is not an
\* IPv4 address
BadAddressEntries ==
    { Entry(<<mw, "=", "10.0.0.5">>, "longmac", MacWords[mw],
            IPv4Words["10.0.0.5"]) :
        mw \in {"aa:bb:cc:dd:ee:ff:00:01", "aa:bb:cc:dd:ee:ff:00:02",
                "aa:bb:cc:dd:ee:ff:00:00:00:00:00:00:02:00:5e:10:00:00:00:01"} }
    \cup { Entry(<<"garbage", "=", "10.0.0.5">>, "badmac", <<>>, <<>>),
           Entry(<<"aa:bb:cc:dd:ee:ff", "=", "1.2.3">>, "badip", <<>>, <<>>) }

Entries == ValidEntries \cup MalformedEntries \cup BadAddressEntries

EntryLists == UNION { [1..n -> Entries] : n \in 0..MaxEntries }

RECURSIVE Join(_)
\* the texts of the entries, separated by ","
Join(es) ==
    IF es = <<>> THEN <<>>
    ELSE IF Len(es) = 1 THEN es[1].text
    ELSE es[1].text \o <<",">> \o Join(Tail(es))

ParseInit ==
    /\ DispatcherIdle
    /\ CodecIdle
    /\ pstage = "init"
    /\ pentries \in EntryLists
    /\ ptext = Join(pentries)
    /\ pres = NoTable

\* parseMapping(ptext)
ParseApply ==
    /\ pstage = "init"
    /\ pres' = parseMapping(ptext)
    /\ pstage' = "parsed"
    /\ UNCHANGED <<pentries, ptext>>
    /\ UNCHANGED <<dispVars, codecVars>>

ParseNext == ParseApply

ParseSpec == ParseInit /\ [][ParseNext]_vars

(***************************************************************************)
(* Properties.                                                             *)
(*                                                                         *)
(* "Frame k" is the k-th result of reader.Read; when pc is not "handle"    *)
(* the frame numbered nrecv has been processed, and the calls of Sendto    *)
(* made for it are the entries of tx whose n is nrecv.                     *)
(***************************************************************************)
Processed == pc # "handle" /\ nrecv > 0

SentFor(k) == { i \in DOMAIN tx : tx[i].n = k }

\* the 42-byte reply of section 4.4, every 16-bit field in network byte order
WireReply(sMAC, sIP, tMAC, tIP) ==
    tMAC \o sMAC \o <<128, 53>> \o <<0, 1>> \o <<8, 0>> \o <<6>> \o <<4>>
    \o <<0, 4>> \o sMAC \o sIP \o tMAC \o tIP

\* C1: every processed frame that is a RARP request on the wire (at least 42
\* bytes, ethertype 0x8035, opcode 3) and whose target hardware address is a
\* key of the table has caused, before the next read, a transmission of a
\* reply whose target protocol address is the mapped IPv4 address.
C1_WireRequestAnswered ==
    (Processed /\ IsMappedWireRequest(frame))
        => \E i \in SentFor(nrecv) :
              Slice(tx[i].frame, 38, 42) = macToIP[Requester(frame)]

\* C2: a processed frame that decodes as a REQUEST (decode succeeds and the
\* decoded opcode is 3) with a mapped target hardware address T has caused
\* exactly one call of Sendto, with the frame encode(serverMAC, serverIP, T,
\* table[T]) of section 4.4 (opcode REPLY).
C2_ExactlyOneReply ==
    LET r == parseIncomingRarp(frame)
        T == r.pkt.THA
    IN  (Processed /\ r.err = "nil" /\ r.pkt.Oper = RARP_REQUEST
                   /\ T \in DOMAIN macToIP)
            => /\ Cardinality(SentFor(nrecv)) = 1
               /\ \A i \in SentFor(nrecv) :
                     tx[i].frame = WireReply(serverMAC, serverIP, T, macToIP[T])

\* C3: nothing is transmitted for a frame whose requester is not a key of the
\* table, the number of transmissions never exceeds the number of received
\* REQUEST frames with a mapped requester, and every transmitted frame
\* carries an address of the table.
C3_NoReplyUnlessMappedRequest ==
    /\ (Processed /\ Len(frame) >= FrameLen
                   /\ Requester(frame) \notin DOMAIN macToIP)
           => SentFor(nrecv) = {}
    /\ Len(tx) <= nreq
    /\ \A i \in DOMAIN tx :
          \E m \in DOMAIN macToIP : Slice(tx[i].frame, 38, 42) = macToIP[m]

\* C4: a transmission is made for a frame only if the frame's opcode field,
\* bytes [20:22] read in network byte order, is RARP REQUEST (3).
C4_OnlyRequestOpcodeAnswered ==
    (Processed /\ SentFor(nrecv) # {})
        => (Len(frame) >= FrameLen /\ Opcode(frame) = RARP_REQUEST)

\* C5: decode succeeds exactly when the input has at least 42 bytes and the
\* field at offset 12, read in network byte order, is 0x8035; an input of at
\* least 42 bytes with 0x0800 there fails with WrongEthertype; on success the
\* decoded fields are the bytes at their offsets.
C5_DecodeAcceptsExactlyValid ==
    cstage = "decoded" =>
        /\ (cres.err = "nil")
              <=> (Len(cb) >= FrameLen /\ Ethertype(cb) = ETH_P_RARP)
        /\ (Len(cb) >= FrameLen /\ Ethertype(cb) = ETH_P_IP)
              => cres.err = "WrongEthertype"
        /\ (cres.err = "nil") =>
              /\ cres.eth.Dst = Slice(cb, 0, 6)
              /\ cres.eth.Src = Slice(cb, 6, 12)
              /\ cres.eth.Type = Ethertype(cb)
              /\ cres.pkt.HType = Uint16(Slice(cb, 14, 16))
              /\ cres.pkt.PType = Uint16(Slice(cb, 16, 18))
              /\ cres.pkt.HLEN = cb[19]
              /\ cres.pkt.PLEN = cb[20]
              /\ cres.pkt.Oper = Opcode(cb)
              /\ cres.pkt.SHA = Slice(cb, 22, 28)
              /\ cres.pkt.SPA = Slice(cb, 28, 32)
              /\ cres.pkt.THA = Slice(cb, 32, 38)
              /\ cres.pkt.TPA = Slice(cb, 38, 42)

\* C6: encode returns exactly the 42 bytes of the section 4.4 layout, with
\* ethertype 0x80 0x35, hardware type 0x00 0x01, protocol type 0x08 0x00,
\* lengths 6 and 4, and opcode 0x00 0x04.
C6_EncodeLayout ==
    cstage = "encoded" =>
        /\ Len(cb) = FrameLen
        /\ cb = WireReply(cargs[1], cargs[2], cargs[3], cargs[4])

\* C7: decode(encode(serverMAC, serverIP, targetMAC, targetIP)) succeeds and
\* returns the four values, Ethernet destination targetMAC, Ethernet source
\* serverMAC, and opcode REPLY (4).
C7_RoundTrip ==
    cstage = "roundtrip" =>
        /\ cres.err = "nil"
        /\ cres.pkt.SHA = cargs[1]
        /\ cres.pkt.SPA = cargs[2]
        /\ cres.pkt.THA = cargs[3]
        /\ cres.pkt.TPA = cargs[4]
        /\ cres.eth.Dst = cargs[3]
        /\ cres.eth.Src = cargs[1]
        /\ cres.pkt.Oper = RARP_REPLY

\* C8: for an input of fewer than 42 bytes, whatever its contents, decode
\* fails with FrameTooShort (never WrongEthertype), indexes no byte of the
\* input, and returns no message (both results are zero values).
C8_ShortFrameRejected ==
    (cstage = "decoded" /\ Len(cb) < FrameLen) =>
        /\ cres.err = "FrameTooShort"
        /\ cres.hi <= Len(cb)
        /\ cres.hi = 0
        /\ cres.eth = ZeroEthHdr
        /\ cres.pkt = ZeroRarpPacket

\* a 41-byte input whose bytes 12-13 are the RARP ethertype has been decoded
C8_Witness ==
    /\ cstage = "decoded"
    /\ Len(cb) = FrameLen - 1
    /\ Slice(cb, 12, 14) = <<128, 53>>
    /\ cres.err = "FrameTooShort"

\* C9: a failed read ends the process in the same step, after it nothing is
\* received, decoded or transmitted, and the loop ends in no other way: the
\* process is exited exactly when a read has failed.
C9_ReadFailureFatal ==
    [][ /\ (readErr' <=> pc' = "exited")
        /\ (pc' = "exited" /\ pc # "exited") => pc = "await"
        /\ readErr => /\ pc' = "exited"
                       /\ UNCHANGED <<frame, nrecv, outcome, tx, rdbuf>>
      ]_vars

\* the process has exited on a read failure after frames were answered
C9_Witness ==
    /\ pc = "exited"
    /\ readErr
    /\ nrecv > 1
    /\ \E i \in DOMAIN tx : tx[i].ok

\* what a dispatcher that has processed no frame before does with frame f
\* received as frame k: the outcome and the calls of Sendto
FirstFrameResult(f, k) ==
    LET r == parseIncomingRarp(f)
        T == r.pkt.THA
        reply == buildRarpReply(serverMAC, serverIP, T, macToIP[T])
    IN  IF r.err # "nil" THEN { <<r.err, <<>> >> }
        ELSE IF r.pkt.Oper # htons(RARP_REQUEST) THEN { <<"opcode", <<>> >> }
        ELSE IF T \notin DOMAIN macToIP THEN { <<"unmapped", <<>> >> }
        ELSE { <<"answered", <<[frame |-> reply, ifindex |-> ifindex,
                                n |-> k, ok |-> TRUE]>> >>,
               <<"sendfail", <<[frame |-> reply, ifindex |-> ifindex,
                                n |-> k, ok |-> FALSE]>> >> }

\* C10: whatever came before (short frame, wrong ethertype, other opcode,
\* unmapped requester, failed transmit), processing a frame returns the loop
\* to awaiting a frame with the pending input untouched, does with the frame
\* what a dispatcher that saw no earlier frame would do, and calls Sendto at
\* most once for it.
C10_LoopUnaffected ==
    [][ pc = "handle" =>
          /\ pc' = "await"
          /\ ~readErr'
          /\ UNCHANGED <<rdbuf, frame, nrecv, macToIP, serverMAC, serverIP>>
          /\ Len(tx') <= Len(tx) + 1
          /\ SubSeq(tx', 1, Len(tx)) = tx
          /\ <<outcome', SubSeq(tx', Len(tx) + 1, Len(tx'))>>
                \in FirstFrameResult(frame, nrecv)
          /\ SentFor(nrecv) = {}
      ]_vars

\* a frame has been answered after an earlier transmit failed
C10_Witness ==
    /\ pc = "await"
    /\ outcome = "answered"
    /\ \E i \in DOMAIN tx : tx[i].n < nrecv /\ ~tx[i].ok

Kinds(ks) == \A i \in DOMAIN pentries : pentries[i].kind \in ks

\* index of the first entry that is neither a valid entry nor empty, 0 when
\* there is none
FirstBad ==
    IF Kinds({"valid", "empty"}) THEN 0
    ELSE CHOOSE i \in DOMAIN pentries :
            /\ pentries[i].kind \notin {"valid", "empty"}
            /\ \A j \in 1..(i - 1) : pentries[j].kind \in {"valid", "empty"}

\* the table last-write-wins gives for the valid entries of the list
IsLastWriteTable(m) ==
    /\ DOMAIN m = { pentries[i].mac :
                      i \in { j \in DOMAIN pentries : pentries[j].kind = "valid" } }
    /\ \A i \in DOMAIN pentries :
          (/\ pentries[i].kind = "valid"
           /\ \A j \in (i + 1)..Len(pentries) :
                 pentries[j].kind = "valid" => pentries[j].mac # pentries[i].mac)
              => m[pentries[i].mac] = pentries[i].ip

\* C12: for a list of valid "<mac>=<ipv4>" entries, parse succeeds, the keys
\* of the table are the distinct MACs of the list, and each MAC maps to the
\* address of its last occurrence (the empty list gives the empty table).
C12_LastWriteWins ==
    (pstage = "parsed" /\ Kinds({"valid"})) =>
        /\ pres.err = "nil"
        /\ IsLastWriteTable(pres.m)
        /\ Cardinality(DOMAIN pres.m) <= Len(pentries)
        /\ (pentries = <<>>) => pres.m = EmptyTable

\* the same MAC, spelt in two ways, was given two addresses and has the second
C12_Witness ==
    /\ pstage = "parsed"
    /\ Len(pentries) = 2
    /\ Kinds({"valid"})
    /\ pentries[1].mac = pentries[2].mac
    /\ pentries[1].text[1] # pentries[2].text[1]
    /\ pentries[1].ip # pentries[2].ip
    /\ DOMAIN pres.m = {pentries[2].mac}
    /\ pres.m[pentries[2].mac] = pentries[2].ip

\* C13 as stated: when a non-empty text has an entry with no "=", with more
\* than one "=", or an empty entry, parse fails with InvalidMappingEntry.
C13_MalformedEntryRejected ==
    (/\ pstage = "parsed"
     /\ ptext # <<>>
     /\ \E i \in DOMAIN pentries :
           pentries[i].kind \in {"noeq", "multieq", "empty"})
        => pres.err = "InvalidMappingEntry"

\* C13 as amended: an entry with no "=" or with more than one "=" makes parse
\* fail and return no table, whatever the other entries are; when every
\* entry before it is valid or empty the error is InvalidMappingEntry for an
\* entry with no "=", and InvalidMacAddress or InvalidIPv4Address for an entry
\* with more than one "=" (it is split at its first "="); empty entries are
\* skipped, so a text of valid and empty entries gives the table of its
\* valid entries.
C13_MalformedEntry ==
    pstage = "parsed" =>
        /\ (\E i \in DOMAIN pentries : pentries[i].kind \in {"noeq", "multieq"})
              => (pres.err \notin {"nil", "none"} /\ pres.m = EmptyTable)
        /\ (FirstBad # 0 /\ pentries[FirstBad].kind = "noeq")
              => pres.err = "InvalidMappingEntry"
        /\ (FirstBad # 0 /\ pentries[FirstBad].kind = "multieq")
              => pres.err \in {"InvalidMacAddress", "InvalidIPv4Address"}
        /\ Kinds({"valid", "empty"})
              => (pres.err = "nil" /\ IsLastWriteTable(pres.m))

\* a valid entry followed by an empty one (a trailing comma) was accepted
C13_Witness ==
    /\ pstage = "parsed"
    /\ Len(pentries) = 2
    /\ pentries[1].kind = "valid"
    /\ pentries[2].kind = "empty"
    /\ pres.err = "nil"
    /\ DOMAIN pres.m = {pentries[1].mac}

\* C14: an entry whose MAC part is not a 6-byte address (8- and 20-byte
\* addresses included) makes parse fail with InvalidMacAddress, so every key
\* of a table is a full address written in the text.
C14_ExactLengthKeys ==
    pstage = "parsed" =>
        /\ (FirstBad # 0 /\ pentries[FirstBad].kind \in {"longmac", "badmac"})
              => pres.err = "InvalidMacAddress"
        /\ pres.err = "nil" =>
              \A k \in DOMAIN pres.m :
                  \E i \in DOMAIN pentries : pentries[i].mac = k

ErrorsOf(step) ==
    CASE step = "ifaceByName" ->
           {"InterfaceNotFound", "InterfaceDown", "MissingHardwareAddress"}
      [] step = "firstIPv4Addr" ->
           {"InterfaceNotFound", "AddrsError", "NoIPv4Address"}
      [] step = "parseMapping" ->
           {"InvalidMappingEntry", "InvalidMacAddress", "InvalidIPv4Address"}
      [] step = "openRawSocket" -> {"SocketOpenError", "BindError"}

InLoop == pc \in {"await", "handle"} \/ nrecv > 0 \/ tx # <<>> \/ readErr

\* C11: the startup steps run in the order interface, first IPv4, mapping,
\* socket; the loop is entered (a frame read or sent) only after all four
\* succeeded; a failing step is the last step run, ends the process, and no
\* frame is read or sent; the socket is opened only after the first three
\* steps succeeded.
C11_NoPartialStartup ==
    /\ started = SubSeq(StartupOrder, 1, Len(started))
    /\ InLoop => (started = StartupOrder /\ startErr = "none" /\ fd = "open")
    /\ startErr # "none" =>
          /\ pc = "exited"
          /\ started # <<>>
          /\ startErr \in ErrorsOf(started[Len(started)])
          /\ nrecv = 0 /\ tx = <<>> /\ frame = <<>> /\ ~readErr
          /\ fd \in {"none", "closed"}
          /\ Len(started) < 4 => fd = "none"
    /\ fd # "none" => started = StartupOrder
    /\ (pc = "exited" /\ startErr = "none") => readErr

\* the mapping text was malformed: the process ended before the socket step
C11_Witness ==
    /\ pc = "exited"
    /\ startErr = "InvalidMappingEntry"
    /\ started = SubSeq(StartupOrder, 1, 3)
    /\ fd = "none"

\* C15: the lookup key is the request's target hardware address: among the
\* frames that reach the lookup, a reply is sent exactly for those whose
\* bytes [32:38] are a key of the table, and the reply's Ethernet destination
\* and target hardware address are those bytes (its target protocol address
\* the address mapped to them), also when the request's Ethernet source or
\* sender hardware address is another address.
C15_RequesterIsTargetHardwareAddress ==
    Processed =>
        /\ \A i \in SentFor(nrecv) :
              /\ Requester(frame) \in DOMAIN macToIP
              /\ Slice(tx[i].frame, 0, 6) = Requester(frame)
              /\ Slice(tx[i].frame, 32, 38) = Requester(frame)
              /\ Slice(tx[i].frame, 38, 42) = macToIP[Requester(frame)]
        /\ outcome \in {"unmapped", "answered", "sendfail"} =>
              (SentFor(nrecv) # {} <=> Requester(frame) \in DOMAIN macToIP)

\* a request sent from an unmapped Ethernet source on behalf of a mapped
\* target hardware address was answered
C15_Witness ==
    /\ Processed
    /\ outcome = "answered"
    /\ Slice(frame, 6, 12) # Requester(frame)
    /\ Slice(frame, 22, 28) # Requester(frame)
    /\ Slice(frame, 6, 12) \notin DOMAIN macToIP

\* C16: a frame is read only while no frame is being processed, the frame
\* being processed is not replaced, every call of Sendto is made while
\* processing a frame, for that (the most recently read) frame and its
\* requester, and the calls are in the order of the frames they answer.
C16_Serialized ==
    [][ /\ nrecv' # nrecv =>
              (pc = "await" /\ pc' = "handle" /\ nrecv' = nrecv + 1 /\ tx' = tx)
        /\ pc = "handle" => (frame' = frame /\ nrecv' = nrecv)
        /\ tx' # tx =>
              /\ pc = "handle"
              /\ pc' # "handle"
              /\ Len(tx') = Len(tx) + 1
              /\ SubSeq(tx', 1, Len(tx)) = tx
              /\ tx'[Len(tx')].n = nrecv
              /\ Slice(tx'[Len(tx')].frame, 32, 38) = Requester(frame)
        /\ \A i, j \in DOMAIN tx' : i < j => tx'[i].n < tx'[j].n
      ]_vars

\* two different replies were sent, for two frames
C16_Witness ==
    /\ pc = "await"
    /\ Len(tx) >= 2
    /\ tx[1].frame # tx[2].frame
    /\ tx[1].n < tx[2].n

\* C17: once the loop is entered no step changes the table, the server's
\* hardware address, its IPv4 address or the interface index, and every
\* reply sent so far is the reply the present table and identity give for its
\* requester (so one request gets the same reply bytes each time).
C17_ConfigurationFixed ==
    [][ /\ pc \in {"await", "handle"} =>
              UNCHANGED <<macToIP, serverMAC, serverIP, ifindex>>
        /\ \A i \in DOMAIN tx' :
              /\ Slice(tx'[i].frame, 32, 38) \in DOMAIN macToIP'
              /\ tx'[i].frame =
                     buildRarpReply(serverMAC', serverIP',
                                    Slice(tx'[i].frame, 32, 38),
                                    macToIP'[Slice(tx'[i].frame, 32, 38)])
              /\ tx'[i].ifindex = ifindex'
      ]_vars

\* after startup, one requester was answered twice with the same bytes
C17_Witness ==
    /\ started = StartupOrder
    /\ pc = "await"
    /\ Len(tx) >= 2
    /\ tx[1].frame = tx[2].frame
    /\ tx[1].n < tx[2].n

\* C18: the reader keeps no bytes of a frame for a later read: what a read
\* returns always starts at byte 0 of a frame the socket delivered.
C18_OneFramePerReceive == rdbuf = <<>>

\* the frame with the same length class (under 42 bytes or not), ethertype,
\* opcode and target hardware address as b, and fixed values everywhere else
Canon(b) ==
    IF Len(b) < FrameLen THEN <<>>
    ELSE Frame(Broadcast, ZeroMAC, Slice(b, 12, 14), StdHeader,
               Slice(b, 20, 22), ZeroMAC, ZeroIP, Slice(b, 32, 38), ZeroIP)

SentSeq(k) == SelectSeq(tx, LAMBDA r : r.n = k)

\* C19: what is done with a frame (why it is discarded, or the reply bytes)
\* is what would be done with any frame of the same length class, ethertype,
\* opcode and target hardware address: the other fields and the bytes from
\* offset 42 on play no part.
C19_DependsOnFourFields ==
    Processed =>
        <<outcome, SentSeq(nrecv)>> \in FirstFrameResult(Canon(frame), nrecv)

\* a frame with hardware type 6, protocol type 0x86dd and address lengths 8
\* and 16 was answered
C19_Witness ==
    /\ Processed
    /\ outcome = "answered"
    /\ Slice(frame, 14, 20) = <<0, 6, 134, 221, 8, 16>>
    /\ frame # Canon(frame)

====
